---- MODULE Spec2Model ----
(***************************************************************************)
(* Connection resilience and fallback controller of the DRISHYA mobile     *)
(* app: class EnhancedHardwareIntegration (src/unnamed/part_001, lines     *)
(* 161-645) and the calls the screen EnhancedHardwareScreen.js makes.      *)
(*                                                                         *)
(* JavaScript runs one task at a time.  A step of this model is one task:  *)
(* the synchronous part of a call up to its first await on a timer, or the *)
(* continuation that a timer starts, run to its next such await.  An await *)
(* on an already settled promise only yields to the microtask queue, which *)
(* is drained before any timer or user event is served; the one microtask  *)
(* boundary that is kept as a step of its own is the catch block of the    *)
(* reconnect callback (pc "thrown"), and no other task runs while it is    *)
(* pending.                                                                *)
(*                                                                         *)
(* Timers are not punctual: setInterval and setTimeout give lower bounds   *)
(* only, and the sampling interval stands for data arriving from the       *)
(* wearable, which can fall silent.  Firing of a live timer is therefore   *)
(* nondeterministic.  Time is counted in heartbeat periods.                *)
(***************************************************************************)
EXTENDS Integers, Sequences, FiniteSets, Bags, TLC

\* ---------------------------------------------------------------- constants
MAX_RETRY_ATTEMPTS == 3
RETRY_DELAY_BASE == 2000
HEALTH_CHECK_INTERVAL == 5000
ERROR_LOG_CAPACITY == 50

DISCONNECTED == "disconnected"
CONNECTING == "connecting"
CONNECTED == "connected"
RECONNECTING == "reconnecting"
FAILED == "failed"
FALLBACK == "fallback_mode"

BLUETOOTH_UNAVAILABLE == "bluetooth_unavailable"
DEVICE_NOT_FOUND == "device_not_found"
CONNECTION_FAILED == "connection_failed"

\* ------------------------------------------------------------------- bounds
\* connectToDevice calls that can be in progress at the same time
MaxCalls == 2
\* intervals / timeouts whose handle was overwritten while they were live
MaxOrphans == 1
\* stretches of silence, each two heartbeat periods long, that are told apart
MaxSilence == 2
\* handleError calls between two clearErrorLog calls, in a behaviour of Spec
MaxErrors == 1
\* the same in a behaviour of LogSpec
MaxLogged == 52

\* ------------------------------------------------------------------- inputs
DeviceIds == {"X"}
Platforms == {"ios", "android", "web", "windows"}
\* samples <<front, left, right>> in centimetres (Math.random() * 3.0 metres
\* each): one with an obstacle and one without
Samples == {<<30, 250, 250>>, <<250, 250, 250>>}
\* distances in centimetres at and around the thresholds, and the samples made
\* of them
GridDistances == {0, 49, 50, 99, 100, 199, 200, 299}
GridSamples == GridDistances \X GridDistances \X GridDistances
NULL == "null"

VARIABLES
  hw,        \* the fields of the EnhancedHardwareIntegration singleton
  calls,     \* the connectToDevice calls in progress, a bag of their locals and
             \* positions: [pc, deviceId, autoRetry, attempt, delay, origin], and
             \* logged, the number of times the call has run handleError
  scan       \* "scanning" while a scanForDevice call awaits its race, else "idle"

vars == <<hw, calls, scan>>

InProgress == BagToSet(calls)

\* the bag cs with one copy of call r removed, and with one copy of r added
Without(cs, r) == cs (-) SetToBag({r})
With(cs, r) == cs (+) SetToBag({r})

\* ---------------------------------------------------------- pure functions
Min3(a, b, c) == IF a <= b /\ a <= c THEN a ELSE IF b <= c THEN b ELSE c

RECURSIVE Pow2(_)
Pow2(n) == IF n <= 0 THEN 1 ELSE 2 * Pow2(n - 1)

\* a slip: the exponent counts from 1, not from 0
BackoffDelay_FromOne(attempt) == RETRY_DELAY_BASE * Pow2(attempt)

\* const delay = RETRY_DELAY_BASE * Math.pow(2, attempt - 1)
BackoffDelay(attempt) == RETRY_DELAY_BASE * Pow2(attempt - 1)

\* a slip: attempt === MAX_RETRY_ATTEMPTS - 1
IsLastAttempt_OneEarly(attempt, autoRetry) ==
  attempt = MAX_RETRY_ATTEMPTS - 1 \/ ~autoRetry

\* a slip: autoRetry is not looked at
IsLastAttempt_IgnoresAutoRetry(attempt, autoRetry) == attempt = MAX_RETRY_ATTEMPTS

\* if (attempt === MAX_RETRY_ATTEMPTS || !autoRetry)
IsLastAttempt(attempt, autoRetry) == attempt = MAX_RETRY_ATTEMPTS \/ ~autoRetry

\* for (...; attempt <= MAX_RETRY_ATTEMPTS; ...)
LoopContinues(attempt) == attempt <= MAX_RETRY_ATTEMPTS

\* a slip: the bounds are upper-inclusive
analyzeDistanceData_Inclusive(data) ==
  LET minDistance == Min3(data.front, data.left, data.right)
  IN  IF minDistance <= 50 THEN "CRITICAL"
      ELSE IF minDistance <= 100 THEN "DANGER"
      ELSE IF minDistance <= 200 THEN "WARNING"
      ELSE "SAFE"

\* analyzeDistanceData, in centimetres
analyzeDistanceData(data) ==
  LET minDistance == Min3(data.front, data.left, data.right)
  IN  IF minDistance < 50 THEN "CRITICAL"
      ELSE IF minDistance < 100 THEN "DANGER"
      ELSE IF minDistance < 200 THEN "WARNING"
      ELSE "SAFE"

\* Object.keys(distances).reduce((a, b) => distances[a] < distances[b] ? a : b)
getClosestDirection(data) ==
  LET a1 == IF data.front < data.left THEN "front" ELSE "left"
      d1 == IF a1 = "front" THEN data.front ELSE data.left
  IN  IF d1 < data.right THEN a1 ELSE "right"

\* DISTANCE_THRESHOLDS of the basic service, in centimetres
DISTANCE_THRESHOLDS_CRITICAL == 50
DISTANCE_THRESHOLDS_DANGER == 100
DISTANCE_THRESHOLDS_WARNING == 200

\* HardwareIntegrationService.analyzeDistanceData
basic_analyzeDistanceData(data) ==
  LET minDistance == Min3(data.front, data.left, data.right)
  IN  IF minDistance < DISTANCE_THRESHOLDS_CRITICAL THEN "CRITICAL"
      ELSE IF minDistance < DISTANCE_THRESHOLDS_DANGER THEN "DANGER"
      ELSE IF minDistance < DISTANCE_THRESHOLDS_WARNING THEN "WARNING"
      ELSE "SAFE"

\* HardwareIntegrationService.getClosestDirection
basic_getClosestDirection(data) ==
  LET a1 == IF data.front < data.left THEN "front" ELSE "left"
      d1 == IF a1 = "front" THEN data.front ELSE data.left
  IN  IF d1 < data.right THEN a1 ELSE "right"

\* HardwareIntegrationService.updateDistanceData: the notifications it delivers
basic_updateDistanceData(data) ==
  LET obstacleLevel == basic_analyzeDistanceData(data)
  IN  IF obstacleLevel # "SAFE"
      THEN << <<"distance", data>>,
              <<"obstacle", obstacleLevel, Min3(data.front, data.left, data.right),
                basic_getClosestDirection(data)>> >>
      ELSE << <<"distance", data>> >>

\* -------------------------------------------- methods, as state transformers
\* Each takes a task record s, the object's fields together with the sequence
\* s.events of notifications the running task has delivered to the listeners so
\* far, and returns the record as the method leaves it.

notifyListeners(s, event) == [s EXCEPT !.events = Append(@, event)]

\* get isConnected()
isConnected(s) == s.connectionState = CONNECTED

\* a slip: at capacity the newest record is dropped, not the oldest
handleError_DropsNewest(s, errorType) ==
  LET error == [type |-> errorType, seq |-> s.errorSeq + 1]
      pushed == Append(s.errorLog, error)
      kept == IF Len(pushed) > ERROR_LOG_CAPACITY
              THEN SubSeq(pushed, 1, ERROR_LOG_CAPACITY) ELSE pushed
  IN  notifyListeners([s EXCEPT !.errorLog = kept, !.errorSeq = @ + 1],
                      <<"error", errorType>>)

handleError(s, errorType) ==
  LET error == [type |-> errorType, seq |-> s.errorSeq + 1]
      pushed == Append(s.errorLog, error)
      kept == IF Len(pushed) > ERROR_LOG_CAPACITY THEN Tail(pushed) ELSE pushed
  IN  notifyListeners([s EXCEPT !.errorLog = kept, !.errorSeq = @ + 1],
                      <<"error", errorType>>)

\* this.healthCheckTimer = setInterval(...): a live interval whose handle is
\* overwritten keeps running and can no longer be cleared
startHealthCheck(s) ==
  [s EXCEPT !.healthCheckTimer = TRUE,
            !.orphanHealth = IF s.healthCheckTimer THEN @ + 1 ELSE @]

stopHealthCheck(s) == [s EXCEPT !.healthCheckTimer = FALSE]

startDistanceMonitoring(s) ==
  [s EXCEPT !.monitoringInterval = TRUE,
            !.orphanMonitors = IF s.monitoringInterval THEN @ + 1 ELSE @]

stopDistanceMonitoring(s) == [s EXCEPT !.monitoringInterval = FALSE]

startFallbackSensors(s) == startDistanceMonitoring(s)

\* a slip: the fallback sensors are not started
activateFallbackMode_NoSensors(s, reason) ==
  LET s1 == [s EXCEPT !.fallbackMode = TRUE, !.connectionState = FALLBACK]
      s2 == notifyListeners(s1, <<"stateChange", FALLBACK>>)
  IN  notifyListeners(s2, <<"fallbackActivated", reason, s.phoneHasLidar>>)

activateFallbackMode(s, reason) ==
  LET s1 == [s EXCEPT !.fallbackMode = TRUE, !.connectionState = FALLBACK]
      s2 == notifyListeners(s1, <<"stateChange", FALLBACK>>)
      s3 == notifyListeners(s2, <<"fallbackActivated", reason, s.phoneHasLidar>>)
  IN  startFallbackSensors(s3)

\* a slip: the obstacle notification is not held back for a safe sample
updateDistanceData_AlertsAlways(s, data) ==
  LET obstacleLevel == analyzeDistanceData(data)
      s2 == notifyListeners(s, <<"distance", data>>)
  IN  notifyListeners(s2, <<"obstacle", obstacleLevel,
                            Min3(data.front, data.left, data.right),
                            getClosestDirection(data), data.source>>)

\* this.distanceData, which the method overwrites, is read nowhere in the
\* class: the sample is what the "distance" notification carries
updateDistanceData(s, data) ==
  LET obstacleLevel == analyzeDistanceData(data)
      s2 == notifyListeners(s, <<"distance", data>>)
  IN  IF obstacleLevel # "SAFE"
      THEN notifyListeners(s2, <<"obstacle", obstacleLevel,
                                 Min3(data.front, data.left, data.right),
                                 getClosestDirection(data), data.source>>)
      ELSE s2

simulateDistanceReading(s, f, l, r) ==
  updateDistanceData(s, [front |-> f, left |-> l, right |-> r,
                         source |-> "drishtika_hardware"])

simulateFallbackDistanceData(s, f, l, r) ==
  updateDistanceData(s, [front |-> f, left |-> l, right |-> r,
                         source |-> IF s.phoneHasLidar THEN "phone_lidar"
                                    ELSE "camera_depth_estimation"])

\* the callback of the sampling interval
monitoringTick(s, f, l, r) ==
  LET s1 == IF s.fallbackMode THEN simulateFallbackDistanceData(s, f, l, r)
            ELSE simulateDistanceReading(s, f, l, r)
  IN  [s1 EXCEPT !.lastDataAge = 0]

\* a slip: no reconnect is scheduled
handleConnectionLoss_NoTimer(s) ==
  LET s1 == [s EXCEPT !.connectionState = RECONNECTING]
      s2 == notifyListeners(s1, <<"stateChange", RECONNECTING>>)
      s3 == notifyListeners(s2, <<"connectionLost">>)
  IN  stopDistanceMonitoring(stopHealthCheck(s3))

\* the synchronous part of handleConnectionLoss
handleConnectionLoss(s) ==
  LET s1 == [s EXCEPT !.connectionState = RECONNECTING]
      s2 == notifyListeners(s1, <<"stateChange", RECONNECTING>>)
      s3 == notifyListeners(s2, <<"connectionLost">>)
      s4 == stopDistanceMonitoring(stopHealthCheck(s3))
  IN  [s4 EXCEPT !.reconnectTimer = "pending",
                 !.orphanReconnects = IF s.reconnectTimer = "pending" THEN @ + 1 ELSE @]

\* a slip: data exactly two heartbeat periods old counts as stale
DataIsStale_Inclusive(s) ==
  LET timeSinceLastData == IF s.lastDataAge = -1 THEN 0 ELSE s.lastDataAge
  IN  timeSinceLastData >= HEALTH_CHECK_INTERVAL * 2

\* now - (this.lastDataTimestamp || now) > HEALTH_CHECK_INTERVAL * 2
DataIsStale(s) ==
  LET timeSinceLastData == IF s.lastDataAge = -1 THEN 0 ELSE s.lastDataAge
  IN  timeSinceLastData > HEALTH_CHECK_INTERVAL * 2

checkConnectionHealth(s) ==
  IF ~isConnected(s) THEN s
  ELSE IF DataIsStale(s) THEN handleConnectionLoss(s)
  ELSE s

\* connectToDevice up to its first await
connectEntry(s) ==
  notifyListeners([s EXCEPT !.connectionState = CONNECTING],
                  <<"stateChange", CONNECTING>>)

\* a slip: the fallback flag is not reset
connectSuccess_KeepsFallbackFlag(s, deviceId, attempt) ==
  LET s1 == [s EXCEPT !.device = deviceId, !.connectionState = CONNECTED,
                      !.retryCount = 0]
      s2 == startDistanceMonitoring(startHealthCheck(s1))
      s3 == notifyListeners(s2, <<"stateChange", CONNECTED>>)
      s4 == notifyListeners(s3, <<"connected", deviceId>>)
  IN  notifyListeners(s4, <<"resolved", attempt>>)

\* connectToDevice after an attempt resolved
connectSuccess(s, deviceId, attempt) ==
  LET s1 == [s EXCEPT !.device = deviceId, !.connectionState = CONNECTED,
                      !.retryCount = 0, !.fallbackMode = FALSE]
      s2 == startDistanceMonitoring(startHealthCheck(s1))
      s3 == notifyListeners(s2, <<"stateChange", CONNECTED>>)
      s4 == notifyListeners(s3, <<"connected", deviceId>>)
  IN  notifyListeners(s4, <<"resolved", attempt>>)

\* a slip: every failed attempt is recorded, not only the last
connectRetry_Records(s) == handleError(s, CONNECTION_FAILED)

\* a slip: the retry counter counts the failed attempts
connectRetry_Counts(s) == [s EXCEPT !.retryCount = @ + 1]

\* connectToDevice after a rejected or timed-out attempt that is retried, up
\* to await this.sleep(delay): logError and logInfo write to the console only
connectRetry(s) == s

\* a slip: the error is written to the console and not to the error log
connectGiveUp_NoRecord(s) ==
  LET s2 == [s EXCEPT !.connectionState = FAILED]
      s3 == notifyListeners(s2, <<"stateChange", FAILED>>)
      s4 == activateFallbackMode(s3, "Connection failed after max retries")
  IN  notifyListeners(s4, <<"rejected">>)

\* a slip: the call falls back and returns without throwing
connectGiveUp_NoThrow(s) ==
  LET s1 == handleError(s, CONNECTION_FAILED)
      s2 == [s1 EXCEPT !.connectionState = FAILED]
      s3 == notifyListeners(s2, <<"stateChange", FAILED>>)
  IN  activateFallbackMode(s3, "Connection failed after max retries")

\* connectToDevice after the last permitted attempt was rejected or timed out
connectGiveUp(s) ==
  LET s1 == handleError(s, CONNECTION_FAILED)
      s2 == [s1 EXCEPT !.connectionState = FAILED]
      s3 == notifyListeners(s2, <<"stateChange", FAILED>>)
      s4 == activateFallbackMode(s3, "Connection failed after max retries")
  IN  notifyListeners(s4, <<"rejected">>)

\* a slip: disconnect() does nothing unless a device is connected
disconnect_OnlyWithDevice(s) ==
  IF s.device = NULL THEN notifyListeners(s, <<"disconnected">>)
  ELSE LET s1 == stopDistanceMonitoring(stopHealthCheck(s))
           s2 == [s1 EXCEPT !.reconnectTimer = NULL]
           s3 == [s2 EXCEPT !.device = NULL, !.connectionState = DISCONNECTED,
                            !.retryCount = 0]
           s4 == notifyListeners(s3, <<"stateChange", DISCONNECTED>>)
       IN  notifyListeners(s4, <<"disconnected">>)

disconnect(s) ==
  LET s1 == stopDistanceMonitoring(stopHealthCheck(s))
      s2 == [s1 EXCEPT !.reconnectTimer = NULL]
      s3 == [s2 EXCEPT !.device = NULL, !.connectionState = DISCONNECTED,
                       !.retryCount = 0]
      s4 == notifyListeners(s3, <<"stateChange", DISCONNECTED>>)
  IN  notifyListeners(s4, <<"disconnected">>)

clearErrorLog(s) == [s EXCEPT !.errorLog = <<>>, !.errorSeq = 0]

\* --------------------------------------------------------------------- state
\* the task record of a task that starts on fields h, and the fields it leaves
Begin(h) ==
  [connectionState |-> h.connectionState, device |-> h.device,
   retryCount |-> h.retryCount,
   healthCheckTimer |-> h.healthCheckTimer, orphanHealth |-> h.orphanHealth,
   monitoringInterval |-> h.monitoringInterval, orphanMonitors |-> h.orphanMonitors,
   reconnectTimer |-> h.reconnectTimer, orphanReconnects |-> h.orphanReconnects,
   lastDataAge |-> h.lastDataAge,
   errorLog |-> h.errorLog, errorSeq |-> h.errorSeq,
   fallbackMode |-> h.fallbackMode, phoneHasLidar |-> h.phoneHasLidar,
   events |-> <<>>]

Fields(s) ==
  [connectionState |-> s.connectionState, device |-> s.device,
   retryCount |-> s.retryCount,
   healthCheckTimer |-> s.healthCheckTimer, orphanHealth |-> s.orphanHealth,
   monitoringInterval |-> s.monitoringInterval, orphanMonitors |-> s.orphanMonitors,
   reconnectTimer |-> s.reconnectTimer, orphanReconnects |-> s.orphanReconnects,
   lastDataAge |-> s.lastDataAge,
   errorLog |-> s.errorLog, errorSeq |-> s.errorSeq,
   fallbackMode |-> s.fallbackMode, phoneHasLidar |-> s.phoneHasLidar]

NewTask == Begin(hw)

\* the fields after construction
Constructed ==
  [connectionState |-> DISCONNECTED, device |-> NULL, retryCount |-> 0,
   healthCheckTimer |-> FALSE, orphanHealth |-> 0,
   monitoringInterval |-> FALSE, orphanMonitors |-> 0,
   reconnectTimer |-> NULL, orphanReconnects |-> 0,
   lastDataAge |-> -1,
   errorLog |-> <<>>, errorSeq |-> 0,
   fallbackMode |-> FALSE, phoneHasLidar |-> FALSE]

InBounds(s) ==
  /\ s.orphanHealth <= MaxOrphans
  /\ s.orphanMonitors <= MaxOrphans
  /\ s.orphanReconnects <= MaxOrphans

\* no catch block of a reconnect callback is waiting in the microtask queue
NoMicrotask == \A r \in InProgress : r.pc # "thrown"

CanCall == BagCardinality(calls) < MaxCalls

Init ==
  /\ hw = Constructed
  /\ calls = EmptyBag
  /\ scan = "idle"

\* ------------------------------------------------------------------- actions
\* Every action runs one task to completion.  The tasks that can run in the
\* current state are records: kind names the code that runs, call is the
\* connectToDevice call the task belongs to (NoCall if none), out is the task
\* record it leaves (the fields and the notifications it delivered), calls and
\* scan are the calls and the scan in progress afterwards.
NoCall ==
  [pc |-> "none", deviceId |-> NULL, autoRetry |-> FALSE, attempt |-> 0,
   delay |-> 0, origin |-> "none", logged |-> 0]

Task(kind, call, out, cs, sc) ==
  [kind |-> kind, call |-> call, out |-> out, calls |-> cs, scan |-> sc]

\* the task k runs
Do(k) ==
  /\ hw' = Fields(k.out)
  /\ calls' = k.calls
  /\ scan' = k.scan

\* a slip: only the web is taken to lack Bluetooth
initialize_WebOnly(s, os, proModel, probeOk) ==
  LET s1 == IF probeOk /\ os = "ios" THEN [s EXCEPT !.phoneHasLidar = proModel] ELSE s
  IN  IF os = "web"
      THEN notifyListeners(
             activateFallbackMode(handleError(s1, BLUETOOTH_UNAVAILABLE),
                                  "Web platform does not support Bluetooth"),
             <<"initialized", TRUE>>)
      ELSE notifyListeners(s1, <<"initialized", FALSE>>)

\* initialize() on a platform with Platform.OS = os whose Device.modelName
\* names a Pro model 12..15 iff proModel.  The screen's mount effect calls it
\* once, before any other method.  Everything before the capability probe
\* resolves only logs; probeOk = FALSE is Device.getDeviceTypeAsync()
\* rejecting, which checkDeviceCapabilities catches.
initialize(s, os, proModel, probeOk) ==
  LET s1 == IF probeOk /\ os = "ios" THEN [s EXCEPT !.phoneHasLidar = proModel] ELSE s
      bluetoothAvailable == os \in {"ios", "android"}
  IN  IF os = "web"
      THEN notifyListeners(
             activateFallbackMode(handleError(s1, BLUETOOTH_UNAVAILABLE),
                                  "Web platform does not support Bluetooth"),
             <<"initialized", TRUE>>)
      ELSE IF ~bluetoothAvailable
      THEN notifyListeners(activateFallbackMode(s1, "Bluetooth not available"),
                           <<"initialized", TRUE>>)
      ELSE notifyListeners(s1, <<"initialized", FALSE>>)

InitializeTasks ==
  IF hw = Constructed /\ calls = EmptyBag /\ scan = "idle"
  THEN {[kind |-> "initialize", call |-> NoCall,
         out |-> initialize(NewTask, x[1], x[2], x[3]),
         calls |-> calls, scan |-> scan,
         os |-> x[1], proModel |-> x[2], probeOk |-> x[3]]
        : x \in Platforms \X BOOLEAN \X BOOLEAN}
  ELSE {}

Initialize == \E k \in InitializeTasks : Do(k)

\* scanForDevice up to the race of performScan against the timeout
scanEntry(s) ==
  notifyListeners([s EXCEPT !.connectionState = CONNECTING],
                  <<"stateChange", CONNECTING>>)

\* scanForDevice after performScan resolved with the device
scanFound(s) == notifyListeners(s, <<"scanResolved", "DRISHTIKA_001">>)

\* a slip: the state is not set back to Disconnected
scanFailed_StaysConnecting(s) ==
  notifyListeners(handleError(s, DEVICE_NOT_FOUND), <<"scanRejected">>)

\* the catch block of scanForDevice
scanFailed(s) ==
  LET s1 == handleError(s, DEVICE_NOT_FOUND)
      s2 == [s1 EXCEPT !.connectionState = DISCONNECTED]
      s3 == notifyListeners(s2, <<"stateChange", DISCONNECTED>>)
  IN  notifyListeners(s3, <<"scanRejected">>)

ScanStartTasks ==
  IF NoMicrotask /\ scan = "idle"
  THEN {Task("scanStart", NoCall, scanEntry(NewTask), calls, "scanning")}
  ELSE {}

ScanStart == \E k \in ScanStartTasks : Do(k)

\* performScan resolves before the timeout rejects
ScanFoundTasks ==
  IF NoMicrotask /\ scan = "scanning"
  THEN {Task("scanFound", NoCall, scanFound(NewTask), calls, "idle")}
  ELSE {}

ScanFound == \E k \in ScanFoundTasks : Do(k)

\* the timeout rejects first: the catch block of scanForDevice
ScanTimeoutTasks(budget) ==
  IF NoMicrotask /\ scan = "scanning" /\ hw.errorSeq < budget
  THEN {Task("scanTimeout", NoCall, scanFailed(NewTask), calls, "idle")}
  ELSE {}

ScanTimeout(budget) == \E k \in ScanTimeoutTasks(budget) : Do(k)

\* connectToDevice(deviceId, autoRetry) called by the screen: the code up to
\* the await of the first attempt
NewCall(deviceId, autoRetry, origin) ==
  [pc |-> "attempting", deviceId |-> deviceId, autoRetry |-> autoRetry,
   attempt |-> 1, delay |-> 0, origin |-> origin, logged |-> 0]

ConnectStartTasks ==
  IF NoMicrotask /\ CanCall
  THEN {Task("connectStart", NewCall(x[1], x[2], "user"), connectEntry(NewTask),
             With(calls, NewCall(x[1], x[2], "user")), scan)
        : x \in DeviceIds \X BOOLEAN}
  ELSE {}

ConnectStart == \E k \in ConnectStartTasks : Do(k)

\* the calls waiting for establishConnection or the connection timeout
Attempting == IF NoMicrotask THEN {r \in InProgress : r.pc = "attempting"} ELSE {}

\* establishConnection resolves before the connection timeout
AttemptSucceedsTasks ==
  {k \in {Task("attemptSucceeds", r, connectSuccess(NewTask, r.deviceId, r.attempt),
               Without(calls, r), scan) : r \in Attempting}
     : InBounds(k.out)}

AttemptSucceeds == \E k \in AttemptSucceedsTasks : Do(k)

\* establishConnection rejects, or the connection timeout rejects first, and
\* attempts remain: the catch block up to await this.sleep(delay)
AttemptFailsRetryTasks ==
  {Task("attemptFailsRetry", r, connectRetry(NewTask),
        With(Without(calls, r),
             [r EXCEPT !.pc = "sleeping", !.delay = BackoffDelay(r.attempt),
                       !.logged = @ + (connectRetry(NewTask).errorSeq - hw.errorSeq)]),
        scan)
   : r \in {q \in Attempting : ~IsLastAttempt(q.attempt, q.autoRetry)}}

AttemptFailsRetry == \E k \in AttemptFailsRetryTasks : Do(k)

\* the same on the last permitted attempt: handleError, Failed, fallback, and
\* the throw that rejects the call.  A call made by the reconnect callback is
\* left at the callback's catch block.
AttemptFailsLastTasks ==
  IF hw.errorSeq < MaxErrors
  THEN {k \in {Task("attemptFailsLast", r, connectGiveUp(NewTask),
                    IF r.origin = "reconnect"
                    THEN With(Without(calls, r),
                              [r EXCEPT !.pc = "thrown",
                                        !.logged = @ + (connectGiveUp(NewTask).errorSeq
                                                        - hw.errorSeq)])
                    ELSE Without(calls, r),
                    scan)
               : r \in {q \in Attempting : IsLastAttempt(q.attempt, q.autoRetry)}}
          : InBounds(k.out)}
  ELSE {}

AttemptFailsLast == \E k \in AttemptFailsLastTasks : Do(k)

\* sleep(delay) resolves: attempt++ and the loop test, then the next attempt
BackoffElapsedTasks ==
  IF NoMicrotask
  THEN {Task("backoffElapsed", r, NewTask,
             IF LoopContinues(r.attempt + 1)
             THEN With(Without(calls, r),
                       [r EXCEPT !.pc = "attempting", !.attempt = @ + 1, !.delay = 0])
             ELSE Without(calls, r),
             scan)
        : r \in {q \in InProgress : q.pc = "sleeping"}}
  ELSE {}

BackoffElapsed == \E k \in BackoffElapsedTasks : Do(k)

\* catch (error) { await this.activateFallbackMode('Reconnection failed') }
ReconnectCatchTasks ==
  {k \in {Task("reconnectCatch", r, activateFallbackMode(NewTask, "Reconnection failed"),
               Without(calls, r), scan)
          : r \in {q \in InProgress : q.pc = "thrown"}}
     : InBounds(k.out)}

ReconnectCatch == \E k \in ReconnectCatchTasks : Do(k)

\* a heartbeat interval fires
HealthCheckTasks ==
  IF NoMicrotask /\ (hw.healthCheckTimer \/ hw.orphanHealth > 0)
  THEN {k \in {Task("healthCheck", NoCall, checkConnectionHealth(NewTask), calls, scan)}
          : InBounds(k.out)}
  ELSE {}

HealthCheckFires == \E k \in HealthCheckTasks : Do(k)

\* a sampling interval fires
MonitoringTasksOver(samples) ==
  IF NoMicrotask /\ (hw.monitoringInterval \/ hw.orphanMonitors > 0)
  THEN {Task("monitoring", NoCall, monitoringTick(NewTask, d[1], d[2], d[3]), calls, scan)
        : d \in samples}
  ELSE {}

MonitoringTasks == MonitoringTasksOver(Samples)

MonitoringFires == \E k \in MonitoringTasks : Do(k)

\* what the reconnect timeout runs: if (this.device) connectToDevice(id, true)
reconnectCallback(s) == IF s.device # NULL THEN connectEntry(s) ELSE s

\* a slip: the reconnect is made without retries
ReconnectCall_NoRetry(deviceId) == NewCall(deviceId, FALSE, "reconnect")

\* the call the callback makes: this.connectToDevice(this.device.id, true)
ReconnectCall(deviceId) == NewCall(deviceId, TRUE, "reconnect")

ReconnectCallbackTasks(kind, s) ==
  IF s.device # NULL
  THEN IF CanCall
       THEN {Task(kind, ReconnectCall(s.device), reconnectCallback(s),
                  With(calls, ReconnectCall(s.device)), scan)}
       ELSE {}
  ELSE {Task(kind, NoCall, reconnectCallback(s), calls, scan)}

\* the reconnect timeout that this.reconnectTimer names fires
ReconnectTasks ==
  IF NoMicrotask /\ hw.reconnectTimer = "pending"
  THEN ReconnectCallbackTasks("reconnect", [NewTask EXCEPT !.reconnectTimer = "fired"])
  ELSE {}

ReconnectFires == \E k \in ReconnectTasks : Do(k)

\* a reconnect timeout whose handle was overwritten fires
OrphanReconnectTasks ==
  IF NoMicrotask /\ hw.orphanReconnects > 0
  THEN ReconnectCallbackTasks("orphanReconnect", [NewTask EXCEPT !.orphanReconnects = @ - 1])
  ELSE {}

OrphanReconnectFires == \E k \in OrphanReconnectTasks : Do(k)

\* activateFallbackManually of the screen
FallbackManuallyTasks ==
  IF NoMicrotask
  THEN {k \in {Task("fallbackManually", NoCall,
                    activateFallbackMode(NewTask, "User requested fallback mode"),
                    calls, scan)}
          : InBounds(k.out)}
  ELSE {}

ActivateFallbackManually == \E k \in FallbackManuallyTasks : Do(k)

DisconnectTasks ==
  IF NoMicrotask
  THEN {Task("disconnect", NoCall, disconnect(NewTask), calls, scan)}
  ELSE {}

Disconnect == \E k \in DisconnectTasks : Do(k)

ClearErrorLogTasks ==
  IF NoMicrotask /\ hw.errorSeq > 0
  THEN {Task("clearErrorLog", NoCall, clearErrorLog(NewTask), calls, scan)}
  ELSE {}

ClearErrorLog == \E k \in ClearErrorLogTasks : Do(k)

\* two heartbeat periods pass without a sample
TickTasks ==
  IF /\ NoMicrotask
     /\ hw.lastDataAge # -1
     /\ hw.lastDataAge < MaxSilence * (HEALTH_CHECK_INTERVAL * 2)
  THEN {Task("tick", NoCall,
             [NewTask EXCEPT !.lastDataAge = @ + HEALTH_CHECK_INTERVAL * 2],
             calls, scan)}
  ELSE {}

Tick == \E k \in TickTasks : Do(k)

Next ==
  \/ Initialize
  \/ ScanStart
  \/ ScanFound
  \/ ScanTimeout(MaxErrors)
  \/ ConnectStart
  \/ AttemptSucceeds
  \/ AttemptFailsRetry
  \/ AttemptFailsLast
  \/ BackoffElapsed
  \/ ReconnectCatch
  \/ HealthCheckFires
  \/ MonitoringFires
  \/ ReconnectFires
  \/ OrphanReconnectFires
  \/ ActivateFallbackManually
  \/ Disconnect
  \/ ClearErrorLog
  \/ Tick

Spec == Init /\ [][Next]_vars

\* every task that can run in the current state
Tasks ==
  UNION {
    {Task(k.kind, k.call, k.out, k.calls, k.scan) : k \in InitializeTasks},
    ScanStartTasks, ScanFoundTasks, ScanTimeoutTasks(MaxErrors),
    ConnectStartTasks, AttemptSucceedsTasks, AttemptFailsRetryTasks,
    AttemptFailsLastTasks, BackoffElapsedTasks, ReconnectCatchTasks,
    HealthCheckTasks, MonitoringTasks, ReconnectTasks, OrphanReconnectTasks,
    FallbackManuallyTasks, DisconnectTasks, ClearErrorLogTasks, TickTasks }

\* the positions at which the task record o delivered the notification e
Deliveries(o, e) == {i \in DOMAIN o.events : o.events[i] = e}

\* The error log alone: scans, those that time out logging an error, and
\* clearErrorLog.
LogNext ==
  \/ ScanStart
  \/ ScanFound
  \/ ScanTimeout(MaxLogged)
  \/ ClearErrorLog

LogSpec == Init /\ [][LogNext]_vars

\* The processing of samples: the controller is initialized, connected or put
\* in fallback, and its sampling intervals deliver samples at and around the
\* thresholds.
GridTasks == MonitoringTasksOver(GridSamples)

GridSampleArrives == \E k \in GridTasks : Do(k)

SampleNext ==
  \/ Initialize
  \/ ConnectStart
  \/ AttemptSucceeds
  \/ ActivateFallbackManually
  \/ Disconnect
  \/ GridSampleArrives
  \/ Tick

SampleSpec == Init /\ [][SampleNext]_vars

\* the sample that the task record o of a sampling task processed
SampleOf(o) == o.events[1][2]

\* the positions at which the task record o delivered an obstacle notification
Alerts(o) == {i \in DOMAIN o.events : o.events[i][1] = "obstacle"}

\* The controller while disconnect() is not called.  What the code awaits is
\* certain to happen: a reconnect timeout fires (setTimeout), an attempt ends,
\* by establishConnection settling or by the connection timeout it is raced
\* against, a backoff wait ends (sleep), and a pending catch block runs.  What
\* the user and the wearable do is not: calls, scans, manual fallback, samples.
LiveNext ==
  \/ Initialize
  \/ ScanStart
  \/ ScanFound
  \/ ScanTimeout(MaxErrors)
  \/ ConnectStart
  \/ AttemptSucceeds
  \/ AttemptFailsRetry
  \/ AttemptFailsLast
  \/ BackoffElapsed
  \/ ReconnectCatch
  \/ HealthCheckFires
  \/ MonitoringFires
  \/ ReconnectFires
  \/ OrphanReconnectFires
  \/ ActivateFallbackManually
  \/ ClearErrorLog
  \/ Tick

AttemptEnds == AttemptSucceeds \/ AttemptFailsRetry \/ AttemptFailsLast

LiveSpec ==
  /\ Init /\ [][LiveNext]_vars
  /\ WF_vars(ReconnectFires)
  /\ WF_vars(OrphanReconnectFires)
  /\ WF_vars(AttemptEnds)
  /\ WF_vars(BackoffElapsed)
  /\ WF_vars(ReconnectCatch)

\* ==================================================================== claims
\* C1: a connectToDevice call makes at most 3 establish-connection attempts,
\* and a task sets the state to Failed (delivers stateChange "failed"), and
\* then activates fallback, only if it is the failure of the last permitted
\* attempt of a call: attempt 3, or attempt 1 of a call without autoRetry.
C1_AttemptsBounded ==
  /\ \A r \in InProgress : r.attempt \in 1..3
  /\ \A k \in Tasks :
       Deliveries(k.out, <<"stateChange", FAILED>>) # {} =>
         /\ k.kind = "attemptFailsLast"
         /\ k.call.pc = "attempting"
         /\ k.call.attempt = 3 \/ ~k.call.autoRetry
         /\ CopiesIn(k.call, k.calls) = CopiesIn(k.call, calls) - 1
         /\ \A i \in Deliveries(k.out, <<"stateChange", FAILED>>) :
              \E j \in Deliveries(k.out, <<"stateChange", FALLBACK>>) : i < j
         /\ k.out.connectionState = FALLBACK
  /\ \A k \in AttemptFailsRetryTasks :
       /\ k.call.attempt < 3
       /\ Deliveries(k.out, <<"stateChange", FALLBACK>>) = {}

\* a call launched by the reconnect callback has failed its third attempt and
\* the controller has fallen back
C1_Witness ==
  \E r \in InProgress :
    r.pc = "thrown" /\ r.attempt = 3 /\ hw.connectionState = FALLBACK

\* C2: when the third attempt of a connectToDevice call with autoRetry fails,
\* the task leaves the state FallbackActive with the sampling timer running,
\* appends exactly one record, of kind connection_failed, to the error log
\* (the call had appended none before), and publishes the fallback-activation
\* reason with the probed LiDAR capability; and while the state is
\* FallbackActive every sample delivered is tagged phone_lidar if the probed
\* LiDAR capability is true and camera_depth_estimation otherwise.
C2_ExhaustionFallsBack ==
  /\ \A k \in AttemptFailsRetryTasks \cup AttemptFailsLastTasks :
       (k.call.autoRetry /\ k.call.attempt = 3) =>
         /\ k.out.connectionState = FALLBACK
         /\ k.out.fallbackMode /\ k.out.monitoringInterval
         /\ k.call.logged = 0
         /\ k.out.errorLog = Append(hw.errorLog,
                                    [type |-> CONNECTION_FAILED, seq |-> hw.errorSeq + 1])
         /\ Cardinality(Deliveries(k.out, <<"error", CONNECTION_FAILED>>)) = 1
         /\ Deliveries(k.out, <<"fallbackActivated",
                                "Connection failed after max retries",
                                hw.phoneHasLidar>>) # {}
  /\ hw.connectionState = FALLBACK =>
       \A k \in Tasks : \A i \in DOMAIN k.out.events :
         k.out.events[i][1] = "distance" =>
           k.out.events[i][2].source = IF hw.phoneHasLidar THEN "phone_lidar"
                                       ELSE "camera_depth_estimation"

\* on a phone with LiDAR the only call in progress, started with autoRetry
\* from Disconnected with an empty error log, is at its third attempt, and the
\* failure of that attempt falls back with one record logged
C2_Witness ==
  /\ hw.phoneHasLidar
  /\ hw.connectionState = CONNECTING
  /\ hw.errorLog = <<>>
  /\ calls = SetToBag({[NewCall("X", TRUE, "user") EXCEPT !.attempt = 3]})
  /\ \E k \in AttemptFailsLastTasks :
       /\ k.out.connectionState = FALLBACK
       /\ k.out.errorLog = <<[type |-> CONNECTION_FAILED, seq |-> 1]>>
       /\ k.calls = EmptyBag

\* The original statement of C3: when the third attempt of a call
\* connectToDevice("X", true) succeeds after attempts 1 and 2 failed, the state
\* is Connected, the device handle names "X", and the call has appended
\* exactly 2 records to the error log.
C3_TwoRecordsLogged ==
  \A k \in AttemptSucceedsTasks :
    (k.call.deviceId = "X" /\ k.call.autoRetry /\ k.call.attempt = 3) =>
      /\ k.out.connectionState = CONNECTED
      /\ k.out.device = "X"
      /\ k.call.logged = 2

\* C3: a failed attempt that is retried appends nothing to the error log and
\* delivers no error notification; when the third attempt of a call
\* connectToDevice("X", true) then succeeds, the state is Connected, the device
\* handle names "X", the call resolves with attempt 3 and it has appended no
\* record to the error log.
C3_RetriedFailuresLogNothing ==
  /\ \A k \in AttemptFailsRetryTasks :
       /\ k.out.errorLog = hw.errorLog
       /\ Deliveries(k.out, <<"error", CONNECTION_FAILED>>) = {}
  /\ \A k \in AttemptSucceedsTasks :
       (k.call.deviceId = "X" /\ k.call.autoRetry /\ k.call.attempt = 3) =>
         /\ k.out.connectionState = CONNECTED
         /\ k.out.device = "X"
         /\ Deliveries(k.out, <<"resolved", 3>>) # {}
         /\ k.call.logged = 0
         /\ k.out.errorLog = hw.errorLog

\* the only call in progress, started from Disconnected with an empty error
\* log, has failed twice and waits for its third attempt, which can succeed
C3_Witness ==
  /\ calls = SetToBag({[NewCall("X", TRUE, "user") EXCEPT !.attempt = 3]})
  /\ hw.connectionState = CONNECTING
  /\ hw.device = NULL
  /\ hw.errorLog = <<>> /\ hw.errorSeq = 0
  /\ \E k \in AttemptSucceedsTasks :
       k.out.connectionState = CONNECTED /\ k.out.errorLog = <<>>

\* C4: in a connectToDevice call with autoRetry the wait after failed attempt
\* 1 is 2000 ms and after failed attempt 2 is 4000 ms, the longer of the two,
\* and no wait follows the failure of the last attempt; the call sets the state
\* to Connecting on entry, and neither a failed attempt that is retried nor the
\* end of a wait changes the state or delivers a stateChange notification.
C4_BackoffDoubles ==
  /\ \A k \in AttemptFailsRetryTasks :
       k.call.autoRetry =>
         /\ k.call.attempt \in {1, 2}
         /\ LET wait == IF k.call.attempt = 1 THEN 2000 ELSE 4000
            IN  /\ CopiesIn([k.call EXCEPT !.pc = "sleeping", !.delay = wait], k.calls)
                     = CopiesIn([k.call EXCEPT !.pc = "sleeping", !.delay = wait], calls) + 1
                /\ BagCardinality(k.calls) = BagCardinality(calls)
  /\ \A r \in InProgress :
       (r.autoRetry /\ r.pc = "sleeping") => r.delay = 2000 * (2 ^ (r.attempt - 1))
  /\ \A k \in AttemptFailsLastTasks :
       \A q \in BagToSet(k.calls) :
         q.pc = "sleeping" => CopiesIn(q, k.calls) = CopiesIn(q, calls)
  /\ \A k \in ConnectStartTasks \cup ReconnectTasks \cup OrphanReconnectTasks :
       k.call # NoCall => k.out.connectionState = CONNECTING
  /\ \A k \in AttemptFailsRetryTasks \cup BackoffElapsedTasks :
       /\ k.out.connectionState = hw.connectionState
       /\ \A i \in DOMAIN k.out.events : k.out.events[i][1] # "stateChange"

\* a call with autoRetry waits 4000 ms after its second failed attempt, the
\* state still Connecting
C4_Witness ==
  /\ hw.connectionState = CONNECTING
  /\ \E r \in InProgress :
       r.autoRetry /\ r.pc = "sleeping" /\ r.attempt = 2 /\ r.delay = 4000

\* C5: after disconnect() the state is Disconnected, and a second disconnect()
\* right after it changes no field, delivers no stateChange notification and
\* appends no error record.
C5_DisconnectIdempotent ==
  \A k \in DisconnectTasks :
    LET again == disconnect(Begin(Fields(k.out)))
    IN  /\ k.out.connectionState = DISCONNECTED
        /\ Fields(again) = Fields(k.out)
        /\ \A i \in DOMAIN again.events : again.events[i][1] # "stateChange"
        /\ \A i \in DOMAIN again.events : again.events[i][1] # "error"

\* C6: activateFallbackMode invoked while the state is FallbackActive, by the
\* screen or by the catch block of the reconnect callback, changes no field
\* (connection state, fallback flag, timers running) and delivers neither a
\* stateChange nor a fallbackActivated notification.
C6_FallbackIdempotent ==
  \A k \in FallbackManuallyTasks \cup ReconnectCatchTasks :
    hw.connectionState = FALLBACK =>
      /\ Fields(k.out) = hw
      /\ \A i \in DOMAIN k.out.events :
           k.out.events[i][1] \notin {"stateChange", "fallbackActivated"}

\* C7: the error log never holds more than 50 records, and it holds the most
\* recent insertions in insertion order: its i-th record is insertion number
\* (insertions so far) - (records held) + i, and it holds min(insertions, 50)
\* records; so after 51 insertions it holds insertions 2..51.
C7_ErrorLogFifo ==
  /\ Len(hw.errorLog) <= 50
  /\ Len(hw.errorLog) = IF hw.errorSeq <= 50 THEN hw.errorSeq ELSE 50
  /\ \A i \in DOMAIN hw.errorLog :
       hw.errorLog[i].seq = hw.errorSeq - Len(hw.errorLog) + i
  /\ hw.errorSeq = 51 =>
       [i \in DOMAIN hw.errorLog |-> hw.errorLog[i].seq] = [i \in 1..50 |-> i + 1]

\* 51 records have been inserted: the log holds 50, the oldest insertion 2
C7_Witness ==
  /\ hw.errorSeq = 51
  /\ Len(hw.errorLog) = 50
  /\ hw.errorLog[1].seq = 2 /\ hw.errorLog[50].seq = 51

\* C8: a heartbeat check that runs while the state is Connected and finds the
\* last sample older than 10 s sets the state to Reconnecting, delivering one
\* stateChange notification, leaves no heartbeat and no sampling interval
\* running, and leaves exactly one reconnect pending; and a heartbeat check
\* that runs while Reconnecting does nothing.
C8_OneLossOneReconnect ==
  \A k \in HealthCheckTasks :
    /\ (hw.connectionState = CONNECTED /\ hw.lastDataAge > 10000) =>
         /\ k.out.connectionState = RECONNECTING
         /\ Cardinality(Deliveries(k.out, <<"stateChange", RECONNECTING>>)) = 1
         /\ ~k.out.healthCheckTimer /\ k.out.orphanHealth = 0
         /\ ~k.out.monitoringInterval /\ k.out.orphanMonitors = 0
         /\ k.out.reconnectTimer = "pending" /\ k.out.orphanReconnects = 0
    /\ hw.connectionState = RECONNECTING =>
         Fields(k.out) = hw /\ k.out.events = <<>>

\* C9: disconnect() leaves the state Disconnected and nothing of earlier
\* activity that could fire afterwards: no connectToDevice call waiting for an
\* attempt or in a backoff wait, no reconnect pending, no heartbeat and no
\* sampling interval running.
C9_DisconnectCancelsAll ==
  \A k \in DisconnectTasks :
    /\ k.out.connectionState = DISCONNECTED
    /\ k.calls = EmptyBag
    /\ ~k.out.healthCheckTimer /\ k.out.orphanHealth = 0
    /\ ~k.out.monitoringInterval /\ k.out.orphanMonitors = 0
    /\ k.out.reconnectTimer # "pending" /\ k.out.orphanReconnects = 0

\* C10: the device handle is non-null if and only if the state is Connected
\* or Reconnecting.
C10_DeviceIffConnected ==
  (hw.device # NULL) <=> (hw.connectionState \in {CONNECTED, RECONNECTING})

\* C11: fallback mode being active and the device handle being non-null never
\* hold at the same time.
C11_FallbackExcludesDevice ==
  ~(hw.fallbackMode /\ hw.device # NULL)

\* the tasks in which a connectToDevice call completes, by returning or by
\* throwing
CompletionTasks ==
  AttemptSucceedsTasks \cup AttemptFailsLastTasks
    \cup {k \in BackoffElapsedTasks : BagCardinality(k.calls) < BagCardinality(calls)}

\* the source tag of every sample the task record o delivered is tag
SamplesTagged(o, tag) ==
  \A i \in DOMAIN o.events :
    o.events[i][1] = "distance" => o.events[i][2].source = tag

\* C12: when a connectToDevice call completes, by returning or by throwing,
\* the state is Connected with the fallback flag off or FallbackActive with
\* the fallback flag on, and a sampling interval is running; and every sample
\* delivered while the state is Connected carries the hardware tag, every
\* sample delivered while it is FallbackActive a fallback tag.
C12_AlwaysASource ==
  /\ \A k \in CompletionTasks :
       /\ k.out.connectionState \in {CONNECTED, FALLBACK}
       /\ k.out.fallbackMode <=> (k.out.connectionState = FALLBACK)
       /\ k.out.monitoringInterval
  /\ \A k \in MonitoringTasks :
       /\ hw.connectionState = CONNECTED => SamplesTagged(k.out, "drishtika_hardware")
       /\ hw.connectionState = FALLBACK =>
            \/ SamplesTagged(k.out, "phone_lidar")
            \/ SamplesTagged(k.out, "camera_depth_estimation")
       /\ Cardinality(Deliveries(k.out, <<"distance", k.out.events[1][2]>>)) = 1

\* a call has returned: Connected, the sampling interval running, and a sample
\* has arrived since
C12_Witness ==
  /\ calls = EmptyBag
  /\ hw.connectionState = CONNECTED /\ ~hw.fallbackMode
  /\ hw.monitoringInterval /\ hw.lastDataAge = 0
  /\ MonitoringTasks # {}

\* The original statement of C13: when the last permitted attempt of a
\* connectToDevice call fails, the call leaves the state FallbackActive,
\* delivers the error on the error channel, and does not reject to its caller.
C13_ExhaustionNotRaised ==
  \A k \in AttemptFailsLastTasks :
    /\ k.out.connectionState = FALLBACK
    /\ Cardinality(Deliveries(k.out, <<"error", CONNECTION_FAILED>>)) = 1
    /\ Deliveries(k.out, <<"rejected">>) = {}

\* C13: when the last permitted attempt of a connectToDevice call fails, the
\* call leaves the state FallbackActive, delivers the error once on the error
\* channel, and then rejects to its caller: the rejection is the last thing
\* the call does, after the fallback activation has been published.
C13_ExhaustionFallsBackThenRejects ==
  \A k \in AttemptFailsLastTasks :
    /\ k.out.connectionState = FALLBACK
    /\ Cardinality(Deliveries(k.out, <<"error", CONNECTION_FAILED>>)) = 1
    /\ Deliveries(k.out, <<"rejected">>) = {Len(k.out.events)}
    /\ \E i \in DOMAIN k.out.events :
         /\ k.out.events[i][1] = "fallbackActivated"
         /\ i < Len(k.out.events)
    /\ k.call.origin = "user" => CopiesIn(k.call, k.calls) = CopiesIn(k.call, calls) - 1

\* the only call in progress, made by the screen without autoRetry, waits for
\* its one attempt, whose failure falls back and rejects
C13_Witness ==
  /\ calls = SetToBag({NewCall("X", FALSE, "user")})
  /\ \E k \in AttemptFailsLastTasks :
       /\ k.out.connectionState = FALLBACK
       /\ Deliveries(k.out, <<"rejected">>) # {}
       /\ k.calls = EmptyBag

\* C14: the level of a sample is Critical if m < 0.5 m, else Danger if
\* m < 1.0 m, else Warning if m < 2.0 m, else Safe, where m is the least of
\* front, left and right (so m = 0.5 is Danger, m = 1.0 Warning, m = 2.0
\* Safe), in analyzeDistanceData of the enhanced and of the basic service
\* alike, and it is the level the obstacle notification carries.
C14_LevelByMinimum ==
  \A k \in GridTasks :
    LET d == SampleOf(k.out)
        m == CHOOSE x \in {d.front, d.left, d.right} :
               x <= d.front /\ x <= d.left /\ x <= d.right
        level == IF m < 50 THEN "CRITICAL"
                 ELSE IF m < 100 THEN "DANGER"
                 ELSE IF m < 200 THEN "WARNING"
                 ELSE "SAFE"
    IN  /\ analyzeDistanceData(d) = level
        /\ basic_analyzeDistanceData(d) = level
        /\ \A i \in Alerts(k.out) : k.out.events[i][2] = level

\* samples have arrived and the next can be one whose minimum is exactly
\* 0.5 m, of level Danger
C14_Witness ==
  /\ hw.lastDataAge = 0
  /\ \E k \in GridTasks :
       /\ SampleOf(k.out).front = 50
       /\ SampleOf(k.out).left = 200 /\ SampleOf(k.out).right = 299
       /\ \E i \in Alerts(k.out) : k.out.events[i][2] = "DANGER"

\* C15: a sample whose level is Safe delivers no obstacle notification; any
\* other sample delivers exactly one, after its distance notification,
\* carrying the level, the minimum distance and the source of the sample; and
\* the same sample processed again right after it delivers the same
\* notifications again.
C15_OneAlertPerUnsafeSample ==
  \A k \in GridTasks :
    LET d == SampleOf(k.out)
        m == CHOOSE x \in {d.front, d.left, d.right} :
               x <= d.front /\ x <= d.left /\ x <= d.right
        again == monitoringTick(Begin(Fields(k.out)), d.front, d.left, d.right)
    IN  /\ m >= 200 => Alerts(k.out) = {}
        /\ m < 200 =>
             /\ Alerts(k.out) = {2}
             /\ k.out.events[2][2] = analyzeDistanceData(d)
             /\ k.out.events[2][3] = m
             /\ k.out.events[2][5] = d.source
        /\ Len(basic_updateDistanceData(d)) = Len(k.out.events)
        /\ again.events = k.out.events

\* in fallback on a phone with LiDAR a sample has arrived, and the next can be
\* one in the Warning band
C15_Witness ==
  /\ hw.connectionState = FALLBACK /\ hw.phoneHasLidar
  /\ hw.lastDataAge = 0
  /\ \E k \in GridTasks :
       /\ SampleOf(k.out).front = 199
       /\ Alerts(k.out) = {2}
       /\ k.out.events[2][5] = "phone_lidar"

\* C20: the direction an obstacle notification reports is front if front is
\* the least of the three components (ties included), else left if left is no
\* greater than right, else right, in the enhanced and in the basic service.
C20_DirectionPrecedence ==
  \A k \in GridTasks :
    LET d == SampleOf(k.out)
        direction == IF d.front <= d.left /\ d.front <= d.right THEN "front"
                     ELSE IF d.left <= d.right THEN "left"
                     ELSE "right"
    IN  /\ \A i \in Alerts(k.out) : k.out.events[i][4] = direction
        /\ basic_getClosestDirection(d) = direction

\* C16: a scanForDevice call that resolves with the device right after it was
\* started leaves the connection state and the device handle as they were
\* before the call.
C16_ScanLeavesState ==
  \A k \in ScanStartTasks :
    LET found == scanFound(Begin(Fields(k.out)))
    IN  /\ Deliveries(found, <<"scanResolved", "DRISHTIKA_001">>) # {}
        /\ found.connectionState = hw.connectionState
        /\ found.device = hw.device

\* C17: a scanForDevice call whose timeout rejects first rejects to its
\* caller, appends exactly one record, of kind device_not_found, to the error
\* log, delivering it once on the error channel, and leaves the state
\* Disconnected and no scan in progress.
C17_ScanTimeoutFails ==
  \A k \in ScanTimeoutTasks(MaxErrors) :
    /\ k.out.connectionState = DISCONNECTED
    /\ k.out.errorLog = Append(hw.errorLog,
                               [type |-> DEVICE_NOT_FOUND, seq |-> hw.errorSeq + 1])
    /\ Cardinality(Deliveries(k.out, <<"error", DEVICE_NOT_FOUND>>)) = 1
    /\ Deliveries(k.out, <<"scanRejected">>) = {Len(k.out.events)}
    /\ Deliveries(k.out, <<"scanResolved", "DRISHTIKA_001">>) = {}
    /\ k.scan = "idle"

\* a scan has timed out on an initialized controller with nothing else going on
C17_Witness ==
  /\ scan = "idle" /\ calls = EmptyBag
  /\ hw.connectionState = DISCONNECTED
  /\ hw.errorLog = <<[type |-> DEVICE_NOT_FOUND, seq |-> 1]>>
  /\ ~hw.fallbackMode /\ ~hw.monitoringInterval

\* C18: initialize() leaves the state FallbackActive with the fallback flag
\* on, and reports fallbackMode true, exactly when the platform is neither ios
\* nor android (web, or no Bluetooth); otherwise it leaves the state
\* Disconnected with the fallback flag off and no timer running and reports
\* fallbackMode false.  In both cases it returns its report.
C18_InitializeFallsBackWithoutTransport ==
  \A k \in InitializeTasks :
    LET unsupported == k.os \notin {"ios", "android"}
    IN  /\ Cardinality({i \in DOMAIN k.out.events : k.out.events[i][1] = "initialized"}) = 1
        /\ k.out.events[Len(k.out.events)] = <<"initialized", unsupported>>
        /\ unsupported =>
             /\ k.out.connectionState = FALLBACK
             /\ k.out.fallbackMode
             /\ k.out.monitoringInterval
        /\ ~unsupported =>
             /\ k.out.connectionState = DISCONNECTED
             /\ ~k.out.fallbackMode
             /\ ~k.out.monitoringInterval /\ ~k.out.healthCheckTimer
             /\ k.out.reconnectTimer = NULL
             /\ k.out.events = << <<"initialized", FALSE>> >>

\* initialize() has run on a platform without Bluetooth that is not the web:
\* fallback with nothing logged and no sample yet
C18_Witness ==
  /\ hw.connectionState = FALLBACK /\ hw.fallbackMode
  /\ hw.monitoringInterval /\ hw.orphanMonitors = 0
  /\ hw.lastDataAge = -1
  /\ hw.errorLog = <<>> /\ hw.errorSeq = 0
  /\ calls = EmptyBag /\ scan = "idle"

\* C19: when an attempt of connectToDevice(id, ...) succeeds, the device handle
\* names id, the retry counter is 0, the fallback flag is off, the state is
\* Connected, the heartbeat interval and the sampling interval are running,
\* the next sample carries the hardware tag, and the call returns the number,
\* from 1, of the attempt that succeeded.
C19_SuccessState ==
  \A k \in AttemptSucceedsTasks :
    /\ k.out.device = k.call.deviceId
    /\ k.out.retryCount = 0
    /\ ~k.out.fallbackMode
    /\ k.out.connectionState = CONNECTED
    /\ k.out.healthCheckTimer /\ k.out.monitoringInterval
    /\ k.call.attempt \in 1..3
    /\ Deliveries(k.out, <<"resolved", k.call.attempt>>) = {Len(k.out.events)}
    /\ \A d \in Samples :
         SamplesTagged(monitoringTick(Begin(Fields(k.out)), d[1], d[2], d[3]),
                       "drishtika_hardware")

\* the only call in progress has failed once and waits for its second attempt,
\* whose success returns 2
C19_Witness ==
  /\ calls = SetToBag({[NewCall("X", TRUE, "user") EXCEPT !.attempt = 2]})
  /\ \E k \in AttemptSucceedsTasks :
       /\ Deliveries(k.out, <<"resolved", 2>>) # {}
       /\ k.out.device = "X"
       /\ k.calls = EmptyBag

\* the reconnect timeouts of the task record s that have not fired yet
PendingReconnects(s) ==
  (IF s.reconnectTimer = "pending" THEN 1 ELSE 0) + s.orphanReconnects

\* The original statement of C21: a connectToDevice call made by the reconnect
\* callback makes one establish-connection attempt only: it is never at an
\* attempt after the first nor in a backoff wait, and the failure of its
\* attempt is never retried.
C21_SingleReconnectTry ==
  /\ \A r \in InProgress :
       r.origin = "reconnect" => r.attempt = 1 /\ r.pc # "sleeping"
  /\ \A k \in AttemptFailsRetryTasks : k.call.origin # "reconnect"

\* C21: a heartbeat-detected loss schedules exactly one reconnect timeout, and
\* a reconnect timeout that fires makes at most one connectToDevice call, with
\* autoRetry, for the device connected before; that call is a retry loop like
\* any other: its failed attempts 1 and 2 leave the state alone and are
\* followed by backoff waits of 2000 and 4000 ms, and only the failure of its
\* attempt 3 falls back.
C21_OneReconnectCall ==
  /\ \A k \in HealthCheckTasks :
       k.out.connectionState # hw.connectionState =>
         /\ k.out.connectionState = RECONNECTING
         /\ PendingReconnects(k.out) = PendingReconnects(hw) + 1
         /\ k.calls = calls
  /\ \A k \in ReconnectTasks \cup OrphanReconnectTasks :
       /\ PendingReconnects(k.out) = PendingReconnects(hw) - 1
       /\ IF hw.device = NULL
          THEN k.call = NoCall /\ k.calls = calls
          ELSE /\ k.call = NewCall(hw.device, TRUE, "reconnect")
               /\ k.calls = With(calls, k.call)
  /\ \A r \in InProgress :
       r.origin = "reconnect" => r.autoRetry /\ r.attempt \in 1..3
  /\ \A k \in AttemptFailsRetryTasks :
       k.call.origin = "reconnect" =>
         /\ k.call.attempt \in {1, 2}
         /\ k.out.connectionState = hw.connectionState
         /\ CopiesIn([k.call EXCEPT !.pc = "sleeping",
                                    !.delay = 2000 * k.call.attempt], k.calls) > 0
  /\ \A k \in AttemptFailsLastTasks :
       k.call.origin = "reconnect" =>
         k.call.attempt = 3 /\ k.out.connectionState = FALLBACK

\* the call made by the reconnect callback has failed twice and waits 4000 ms
\* for its third attempt
C21_Witness ==
  \E r \in InProgress :
    /\ r.origin = "reconnect" /\ r.pc = "sleeping"
    /\ r.attempt = 2 /\ r.delay = 4000
    /\ hw.device = r.deviceId

\* C22: while disconnect() is not called, whenever the state is Reconnecting
\* the state is later Connected or FallbackActive: the controller does not
\* stay in Reconnecting, nor in the Connecting and Failed states the reconnect
\* passes through, forever.
C22_ReconnectingEnds ==
  (hw.connectionState = RECONNECTING)
    ~> (hw.connectionState \in {CONNECTED, FALLBACK})

\* the heartbeat check has found the link silent: Reconnecting, both intervals
\* stopped, the reconnect pending and no call in progress
C22_Witness ==
  /\ hw.connectionState = RECONNECTING
  /\ hw.reconnectTimer = "pending" /\ hw.device # NULL
  /\ ~hw.healthCheckTimer /\ ~hw.monitoringInterval
  /\ calls = EmptyBag

\* C23: no state is terminal.  In every state between two tasks, FallbackActive
\* included, a disconnect() called now leaves the state Disconnected; and a
\* connectToDevice(id) called now whose first attempt succeeds leaves the state
\* Connected with the device handle naming id, and the sample that follows
\* carries the hardware tag.  (Failed is never the state between two tasks: the
\* task that sets it sets FallbackActive before it ends.)
C23_NoTerminalState ==
  /\ hw.connectionState # FAILED
  /\ NoMicrotask =>
       /\ DisconnectTasks # {}
       /\ \A k \in DisconnectTasks : k.out.connectionState = DISCONNECTED
       /\ \A id \in DeviceIds :
            LET entered == connectEntry(NewTask)
                done == connectSuccess(Begin(Fields(entered)), id, 1)
            IN  /\ entered.connectionState = CONNECTING
                /\ done.connectionState = CONNECTED
                /\ done.device = id
                /\ \A d \in Samples :
                     SamplesTagged(monitoringTick(Begin(Fields(done)), d[1], d[2], d[3]),
                                   "drishtika_hardware")

\* a call has exhausted its attempts: FallbackActive with the failure logged,
\* no device and no call in progress
C23_Witness ==
  /\ hw.connectionState = FALLBACK /\ hw.fallbackMode
  /\ hw.device = NULL
  /\ hw.errorLog = <<[type |-> CONNECTION_FAILED, seq |-> 1]>>
  /\ calls = EmptyBag /\ scan = "idle"

\* C24: at most one connectToDevice call is in progress at any time, so an
\* attempt never succeeds while another call is still in progress.
C24_OneCallInFlight ==
  /\ BagCardinality(calls) <= 1
  /\ \A k \in AttemptSucceedsTasks : k.calls = EmptyBag

\* C25: a heartbeat interval is running only if the state is Connected; in
\* particular none is running while the state is FallbackActive.
C25_HeartbeatOnlyWhenConnected ==
  (hw.healthCheckTimer \/ hw.orphanHealth > 0) => hw.connectionState = CONNECTED

\* C26: at most one sampling interval is live: none is running beside the one
\* whose handle the controller holds.
C26_NoOrphanSampling ==
  hw.orphanMonitors = 0

\* C27: the fallback flag is on if and only if the state is FallbackActive,
\* and a sample carries a fallback tag only while the state is FallbackActive.
C27_FlagIffFallbackState ==
  /\ hw.fallbackMode <=> (hw.connectionState = FALLBACK)
  /\ \A k \in MonitoringTasks :
       hw.connectionState # FALLBACK => SamplesTagged(k.out, "drishtika_hardware")

\* the stateChange notifications the task record o delivered, in order
StateChanges(o) ==
  LET IsStateChange(e) == e[1] = "stateChange"
      changes == SelectSeq(o.events, IsStateChange)
  IN  [i \in DOMAIN changes |-> changes[i][2]]

\* C28: a connectToDevice call without autoRetry delivers stateChange
\* Connecting on entry and makes one establish-connection attempt only: it is
\* never in a backoff wait nor at an attempt after the first, and when its
\* attempt fails the call ends there, exactly one record, of kind
\* connection_failed, is appended to the error log, the stateChange
\* notifications delivered are Failed and then FallbackActive, and the state is
\* left FallbackActive.
C28_NoRetryWithoutAutoRetry ==
  /\ \A r \in InProgress :
       ~r.autoRetry => r.attempt = 1 /\ r.pc = "attempting" /\ r.delay = 0
  /\ \A k \in ConnectStartTasks :
       ~k.call.autoRetry => StateChanges(k.out) = <<CONNECTING>>
  /\ \A k \in AttemptFailsRetryTasks : k.call.autoRetry
  /\ \A k \in AttemptFailsLastTasks :
       ~k.call.autoRetry =>
         /\ k.calls = Without(calls, k.call)
         /\ k.out.errorLog = Append(hw.errorLog,
                                    [type |-> CONNECTION_FAILED, seq |-> hw.errorSeq + 1])
         /\ Cardinality(Deliveries(k.out, <<"error", CONNECTION_FAILED>>)) = 1
         /\ StateChanges(k.out) = <<FAILED, FALLBACK>>
         /\ k.out.connectionState = FALLBACK

\* the only call in progress was started without autoRetry from Disconnected
\* with an empty error log, and the failure of its attempt ends it in fallback
C28_Witness ==
  /\ calls = SetToBag({NewCall("X", FALSE, "user")})
  /\ hw.connectionState = CONNECTING
  /\ hw.errorLog = <<>>
  /\ \E k \in AttemptFailsLastTasks :
       /\ k.calls = EmptyBag
       /\ k.out.connectionState = FALLBACK
       /\ Len(k.out.errorLog) = 1

\* C29: a heartbeat check that runs while the state is not Connected, or while
\* the last sample is at most 10 s old, or before any sample was received,
\* changes no field (state, device handle, timers, error log) and delivers no
\* notification.
C29_HealthCheckFrame ==
  \A k \in HealthCheckTasks :
    (\/ hw.connectionState # CONNECTED
     \/ hw.lastDataAge = -1
     \/ hw.lastDataAge <= 10000) =>
      /\ Fields(k.out) = hw
      /\ k.out.events = <<>>
      /\ k.calls = calls /\ k.scan = scan

\* Connected with the heartbeat running and the last sample exactly 10 s old
C29_Witness ==
  /\ hw.connectionState = CONNECTED
  /\ hw.healthCheckTimer
  /\ hw.lastDataAge = 10000
  /\ HealthCheckTasks # {}

\* C30: the retry counter is 0 in every state and no task leaves it otherwise,
\* whatever attempt the calls in progress are at.
C30_RetryCountZero ==
  /\ hw.retryCount = 0
  /\ \A k \in Tasks : k.out.retryCount = 0

\* a call is at its third attempt and the retry counter reads 0
C30_Witness ==
  /\ hw.retryCount = 0
  /\ \E r \in InProgress : r.attempt = 3 /\ r.pc = "attempting"

====
